---- MODULE Spec2Model ----
(***************************************************************************)
(* State-machine model of timer.py: a countdown timer on a 17x7 LED        *)
(* matrix.  Timer owns (minutes, seconds, timerCount); Display owns the    *)
(* digits to render, the per-field colour and brightness, and the handle   *)
(* of the pixel sink.  The main loop calls display.clear() and             *)
(* timer.update() for ever; the three button callbacks key_1, key_2 and    *)
(* key_3 run between the main loop's calls, or, in SpecRace, between the   *)
(* reads and writes of Timer.update.                                       *)
(***************************************************************************)
EXTENDS Integers, Sequences, FiniteSets

VARIABLES
    minutes,            \* Timer._minutes
    seconds,            \* Timer._seconds
    timerCount,         \* Timer._timerCount
    d_minutes,          \* Display._minutes
    d_seconds,          \* Display._seconds
    digit_left_br,      \* Display._digit_left_br, in tenths (10 is 1.0)
    digit_right_br,     \* Display._digit_right_br, in tenths
    digit_left_color,   \* Display._digit_left_color, <<r, g, b>>
    digit_right_color,  \* Display._digit_right_color, <<r, g, b>>
    sink,               \* the calls the pixel sink received since, and with, its last clear()
    pc,                 \* the main loop's position: "clear", "update" or "failed"
    presses,            \* history: the button callbacks run since the last Timer.update call
    pressed,            \* history: some button callback has run since process start
    quiet,              \* history: no button callback has run since timerCount last became 0
    reg,                \* the value the main thread last read inside Timer.update
    cb,                 \* the callback thread: the step it is at and the value it last read
    tally               \* history: the callbacks completed and the countdown steps performed

timerVars == <<minutes, seconds, timerCount>>
fieldVars == <<digit_left_br, digit_right_br, digit_left_color, digit_right_color>>
displayVars == <<d_minutes, d_seconds, fieldVars, sink>>
histVars == <<presses, pressed, quiet>>
raceVars == <<reg, cb, tally>>
vars == <<timerVars, displayVars, pc, histVars, raceVars>>

(***************************************************************************)
(* Bounds of the model.                                                    *)
(***************************************************************************)
\* key_1 and the carry of key_2 are not taken once minutes is MaxMinutes
MaxMinutes == 2
\* at most MaxPresses button callbacks run between two Timer.update calls
MaxPresses == 2
\* the same two bounds where button 17 is the only button pressed
LongMinutes == 100
LongPresses == 1
\* where every read and write of a counter is a step of its own: the button
\* callbacks started in all, and the countdown steps Timer.update performs
RacePresses == 3
RaceCountdowns == 1

(***************************************************************************)
(* The bitmap font.                                                        *)
(***************************************************************************)
\* the 15-bit glyphs of the digits 0..9; three columns of five bits,
\* most significant bit the top-left cell
digits_5x3 ==
    << 32319,   \* 0b111111000111111
       18401,   \* 0b100011111100001
       24253,   \* 0b101111010111101
       22207,   \* 0b101011010111111
       28831,   \* 0b111000010011111
       30391,   \* 0b111011010110111
       32423,   \* 0b111111010100111
       16927,   \* 0b100001000011111
       32447,   \* 0b111111010111111
       29343 >> \* 0b111001010011111

\* a Python list index is in range from -len to len - 1
IndexInRange(digit) == digit >= -Len(digits_5x3) /\ digit < Len(digits_5x3)

\* the entry digits_5x3[digit] names, as Python indexes a list: a negative
\* index counts from the end
ListPosition(digit) ==
    IF digit >= 0 THEN digit + 1 ELSE Len(digits_5x3) + digit + 1

Pow2(n) == IF n = 0 THEN 1 ELSE IF n = 1 THEN 2 ELSE IF n = 2 THEN 4
           ELSE IF n = 3 THEN 8 ELSE 16

\* cols[dx]: (digit >> 10) & 31, (digit >> 5) & 31, digit & 31
Column(glyph, dx) ==
    IF dx = 0 THEN (glyph \div 1024) % 32
    ELSE IF dx = 1 THEN (glyph \div 32) % 32
    ELSE glyph % 32

\* col & (1 << (4 - dy))
CellLit(glyph, dx, dy) == (Column(glyph, dx) \div Pow2(4 - dy)) % 2 = 1

\* the cells of a glyph in the order the two loops of _draw_digit visit them
Cells == [i \in 1..15 |-> <<(i - 1) \div 5, (i - 1) % 5>>]

(***************************************************************************)
(* The pixel sink: the calls it receives.                                  *)
(***************************************************************************)
SetPixel(x, y, r, g, b) == [op |-> "set_pixel", x |-> x, y |-> y, c |-> <<r, g, b>>]
ClearCall == [op |-> "clear", x |-> 0, y |-> 0, c |-> <<0, 0, 0>>]
ShowCall == [op |-> "show", x |-> 0, y |-> 0, c |-> <<0, 0, 0>>]

\* the lit cells of each glyph of the table, in the order the loops of
\* _draw_digit find them
LitCells ==
    [i \in 1..Len(digits_5x3) |->
        SelectSeq(Cells, LAMBDA cell : CellLit(digits_5x3[i], cell[1], cell[2]))]

\* Display._draw_digit: one set_pixel call per lit cell of digits_5x3[digit];
\* none when the lookup raises IndexError
draw_digit(digit, x, y, r, g, b) ==
    IF IndexInRange(digit)
    THEN LET lit == LitCells[ListPosition(digit)]
         IN  [i \in 1..Len(lit) |-> SetPixel(x + lit[i][1], y + lit[i][2], r, g, b)]
    ELSE << >>

\* Display._draw_colon
draw_colon(r, g, b) == << SetPixel(8, 2, r, g, b), SetPixel(8, 4, r, g, b) >>

\* int(c * br) for a colour component c and a brightness of br tenths
Scale(c, br) == (c * br) \div 10

\* [int(c * br) for c in color]
Scaled(color, br) == << Scale(color[1], br), Scale(color[2], br), Scale(color[3], br) >>

(***************************************************************************)
(* Display.                                                                *)
(***************************************************************************)
\* int(n / 10): true division, then truncation towards zero
TensDigit(n) == IF n >= 0 THEN n \div 10 ELSE -((-n) \div 10)

\* int(n % 10): Python's % takes the sign of the divisor
OnesDigit(n) == n % 10

\* LeftDigitColor, had line 94 passed the r, g, b that line 93 computes
LeftDigitColor_stored == Scaled(digit_left_color, digit_left_br)

\* the colour Display.update passes to _draw_digit for the two minute digits
LeftDigitColor == <<249, 82, 255>>

\* the colour Display.update passes to _draw_digit for the two second digits
RightDigitColor == <<5, 255, 161>>

\* DigitDraws with the last slot one column to the right
DigitDraws_shifted(m, s) ==
    << <<TensDigit(m), 1, LeftDigitColor>>,
       <<OnesDigit(m), 5, LeftDigitColor>>,
       <<TensDigit(s), 9, RightDigitColor>>,
       <<OnesDigit(s), 14, RightDigitColor>> >>

\* the four _draw_digit calls of Display.update, in order: <<digit, x, colour>>
DigitDraws(m, s) ==
    << <<TensDigit(m), 1, LeftDigitColor>>,
       <<OnesDigit(m), 5, LeftDigitColor>>,
       <<TensDigit(s), 9, RightDigitColor>>,
       <<OnesDigit(s), 13, RightDigitColor>> >>

\* the first of the four _draw_digit calls whose glyph lookup raises; 5 if none does
FirstRaise(m, s) ==
    LET bad == {i \in 1..4 : ~IndexInRange(DigitDraws(m, s)[i][1])}
    IN  IF bad = {} THEN 5 ELSE CHOOSE i \in bad : \A j \in bad : i <= j

\* Display.update(m, s) does not return: a glyph lookup raises IndexError
UpdateRaises(m, s) == FirstRaise(m, s) <= 4

RECURSIVE DrawUpTo(_, _, _)
\* the set_pixel calls of the first n _draw_digit calls
DrawUpTo(m, s, n) ==
    IF n = 0 THEN << >>
    ELSE LET d == DigitDraws(m, s)[n]
         IN  DrawUpTo(m, s, n - 1)
                 \o draw_digit(d[1], d[2], 1, d[3][1], d[3][2], d[3][3])

\* the sink calls of Display.update(m, s): the digits up to the first lookup
\* that raises, and, when none raises, the colon and show()
UpdateCalls(m, s) ==
    IF UpdateRaises(m, s)
    THEN DrawUpTo(m, s, FirstRaise(m, s) - 1)
    ELSE DrawUpTo(m, s, 4) \o draw_colon(255, 0, 0) \o << ShowCall >>

\* Display.set_digits
set_digits(m, s) == d_minutes' = m /\ d_seconds' = s

\* Display.clear with the call of the sink's clear() left out
clear_nothing == sink' = sink

\* Display.clear
clear == sink' = << ClearCall >>

\* Display.update(m, s)
Display_update(m, s) ==
    /\ set_digits(m, s)
    /\ sink' = sink \o UpdateCalls(m, s)
    /\ UNCHANGED fieldVars

(***************************************************************************)
(* Timer.                                                                  *)
(***************************************************************************)
\* the main loop sleeps 1.0 / 20 s and Timer.update counts 20 calls per second
TicksPerSecond == 20

\* Timer.key_2 on (m, s): s / 60 > 1 is true division, so it holds from s = 61
Key2(m, s) ==
    LET s1 == s + 30
    IN  IF s1 > 1 * 60 THEN <<m + 1, s1 - 60>> ELSE <<m, s1>>

\* Key3 with the reset of the minutes left out
Key3_seconds_only(m, s) == <<m, 0>>

\* Timer.key_3 on (m, s)
Key3(m, s) == <<0, 0>>

\* CountdownDue with a divisor of 10
CountdownDue_every_10(count) == count % 10 = 0

\* CountdownDue with a divisor of 21
CountdownDue_every_21(count) == count % 21 = 0

\* the test of Timer.update on the incremented tick counter
CountdownDue(count) == count % TicksPerSecond = 0

\* Countdown with the test minutes > 0 left out
Countdown_no_floor(m, s) ==
    IF s > 0 THEN <<m, s - 1>> ELSE <<m - 1, 59>>

\* the countdown step of Timer.update on (m, s)
Countdown(m, s) ==
    IF s > 0 THEN <<m, s - 1>>
    ELSE IF s = 0 /\ m > 0 THEN <<m - 1, 59>>
    ELSE <<m, s>>

\* a button callback ran, one of at most maxPresses between two Timer.update
\* calls: the history it leaves
Press(key, maxPresses) ==
    /\ Len(presses) < maxPresses
    /\ presses' = Append(presses, key)
    /\ pressed' = TRUE
    /\ quiet' = FALSE

\* Key1Pressed restarting the tick counter
Key1Pressed_restarts(maxMinutes, maxPresses) ==
    /\ pc /= "failed"
    /\ minutes < maxMinutes
    /\ minutes' = minutes + 1
    /\ timerCount' = 0
    /\ Press("key_1", maxPresses)
    /\ UNCHANGED <<seconds, displayVars, pc, raceVars>>

\* Timer.key_1 while minutes is below maxMinutes
Key1Pressed(maxMinutes, maxPresses) ==
    /\ pc /= "failed"
    /\ minutes < maxMinutes
    /\ minutes' = minutes + 1
    /\ Press("key_1", maxPresses)
    /\ UNCHANGED <<seconds, timerCount, displayVars, pc, raceVars>>

\* Timer.key_1, the callback of button 17
key_1 == Key1Pressed(MaxMinutes, MaxPresses)

\* Timer.key_2, the callback of button 22
key_2 ==
    /\ pc /= "failed"
    /\ Key2(minutes, seconds)[1] <= MaxMinutes
    /\ minutes' = Key2(minutes, seconds)[1]
    /\ seconds' = Key2(minutes, seconds)[2]
    /\ Press("key_2", MaxPresses)
    /\ UNCHANGED <<timerCount, displayVars, pc, raceVars>>

\* key_3 clearing the pixel sink as well
key_3_clears ==
    /\ pc /= "failed"
    /\ seconds' = 0
    /\ minutes' = 0
    /\ sink' = << ClearCall >>
    /\ Press("key_3", MaxPresses)
    /\ UNCHANGED <<timerCount, d_minutes, d_seconds, fieldVars, pc, raceVars>>

\* Timer.key_3, the callback of button 6
key_3 ==
    /\ pc /= "failed"
    /\ seconds' = Key3(minutes, seconds)[2]
    /\ minutes' = Key3(minutes, seconds)[1]
    /\ Press("key_3", MaxPresses)
    /\ UNCHANGED <<timerCount, displayVars, pc, raceVars>>

\* display.clear() of the main loop
Display_clear ==
    /\ pc = "clear"
    /\ clear
    /\ pc' = "update"
    /\ UNCHANGED <<timerVars, d_minutes, d_seconds, fieldVars, histVars, raceVars>>

\* timer.update() of the main loop; an IndexError of Display.update ends the process
Timer_update ==
    /\ pc = "update"
    /\ Display_update(minutes, seconds)
    /\ presses' = << >>
    /\ pressed' = pressed
    /\ UNCHANGED raceVars
    /\ IF UpdateRaises(minutes, seconds)
       THEN /\ pc' = "failed"
            /\ UNCHANGED <<timerVars, quiet>>
       ELSE /\ pc' = "clear"
            /\ IF CountdownDue(timerCount + 1)
               THEN /\ timerCount' = 0
                    /\ minutes' = Countdown(minutes, seconds)[1]
                    /\ seconds' = Countdown(minutes, seconds)[2]
                    /\ quiet' = TRUE
               ELSE /\ timerCount' = timerCount + 1
                    /\ UNCHANGED <<minutes, seconds, quiet>>

\* Init with the Timer's counters set to the digits Timer.__init__ stores in the Display
Init_five_oh_one ==
    /\ minutes = 5
    /\ seconds = 1
    /\ timerCount = 0
    /\ d_minutes = 5
    /\ d_seconds = 1
    /\ digit_left_br = 10
    /\ digit_right_br = 10
    /\ digit_left_color = <<128, 128, 128>>
    /\ digit_right_color = <<128, 128, 128>>
    /\ sink = << >>
    /\ pc = "clear"
    /\ presses = << >>
    /\ pressed = FALSE
    /\ quiet = TRUE
    /\ reg = 0
    /\ cb = [at |-> "idle", reg |-> 0]
    /\ tally = [key_1 |-> 0, key_2 |-> 0, key_3 |-> 0, downs |-> 0, reset |-> "none"]

\* the state after lines 204-209: Display and Timer constructed, callbacks registered
Init ==
    /\ minutes = 0
    /\ seconds = 0
    /\ timerCount = 0
    /\ d_minutes = 5
    /\ d_seconds = 1
    /\ digit_left_br = 10
    /\ digit_right_br = 10
    /\ digit_left_color = <<128, 128, 128>>
    /\ digit_right_color = <<128, 128, 128>>
    /\ sink = << >>
    /\ pc = "clear"
    /\ presses = << >>
    /\ pressed = FALSE
    /\ quiet = TRUE
    /\ reg = 0
    /\ cb = [at |-> "idle", reg |-> 0]
    /\ tally = [key_1 |-> 0, key_2 |-> 0, key_3 |-> 0, downs |-> 0, reset |-> "none"]

\* the program: the main loop and the three button callbacks
Next == key_1 \/ key_2 \/ key_3 \/ Display_clear \/ Timer_update

Spec == Init /\ [][Next]_vars

(***************************************************************************)
(* The program with button 17 the only button pressed, far enough for the  *)
(* minutes to need a third decimal digit.                                  *)
(***************************************************************************)
\* Timer.key_1, the callback of button 17, up to LongMinutes
key_1_long == Key1Pressed(LongMinutes, LongPresses)

NextLong == key_1_long \/ Display_clear \/ Timer_update

SpecLong == Init /\ [][NextLong]_vars

(***************************************************************************)
(* Display under a driver that calls its public operations: the setters    *)
(* of the field colours and brightness, then clear() and update(m, s).     *)
(***************************************************************************)
\* the colours and the brightness values (in tenths) the driver stores
DriverColors == { <<128, 128, 128>>, <<255, 0, 0>> }
DriverBrightness == { 10, 5 }
\* the seconds the driver passes to update: every digit 0..9 as a ones digit,
\* every digit 0..5 as a tens digit
DriverSeconds == { 0, 11, 16, 22, 27, 33, 38, 44, 49, 55 }

\* Display.set_digit_color
set_digit_color(left, right) ==
    /\ digit_left_color' = left
    /\ digit_right_color' = right
    /\ UNCHANGED <<digit_left_br, digit_right_br>>

\* Display.set_digit_brightness
set_digit_brightness(left, right) ==
    /\ digit_left_br' = left
    /\ digit_right_br' = right
    /\ UNCHANGED <<digit_left_color, digit_right_color>>

\* the driver calls set_digit_color before it clears
call_set_digit_color ==
    /\ pc = "clear"
    /\ \E left \in DriverColors, right \in DriverColors : set_digit_color(left, right)
    /\ UNCHANGED <<timerVars, d_minutes, d_seconds, sink, pc, histVars, raceVars>>

\* the driver calls set_digit_brightness before it clears
call_set_digit_brightness ==
    /\ pc = "clear"
    /\ \E left \in DriverBrightness, right \in DriverBrightness :
           set_digit_brightness(left, right)
    /\ UNCHANGED <<timerVars, d_minutes, d_seconds, sink, pc, histVars, raceVars>>

\* the driver calls update(m, s) after clear()
call_update ==
    /\ pc = "update"
    /\ \E m \in 0..MaxMinutes, s \in DriverSeconds :
           /\ Display_update(m, s)
           /\ pc' = IF UpdateRaises(m, s) THEN "failed" ELSE "clear"
    /\ UNCHANGED <<timerVars, histVars, raceVars>>

NextDisplay ==
    call_set_digit_color \/ call_set_digit_brightness \/ Display_clear \/ call_update

SpecDisplay == Init /\ [][NextDisplay]_vars

(***************************************************************************)
(* Reading the sink: the pixel buffer its calls leave, and the digits the  *)
(* buffer shows.                                                           *)
(***************************************************************************)
Black == <<0, 0, 0>>

\* the colour of pixel (x, y): that of the last set_pixel call on it since
\* the last clear(), black if there is none
PixelAt(log, x, y) ==
    LET hits == {i \in 1..Len(log) :
                    log[i].op = "set_pixel" /\ log[i].x = x /\ log[i].y = y}
    IN  IF hits = {} THEN Black
        ELSE log[CHOOSE i \in hits : \A j \in hits : j <= i].c

\* the number of show() calls in a log
ShowCount(log) == Cardinality({i \in 1..Len(log) : log[i].op = "show"})

\* the 15-bit pattern of the lit pixels of the glyph slot at (x, y):
\* bit 14 - (5 * dx + dy) is the cell (dx, dy)
RECURSIVE SlotBits(_, _, _, _)
SlotBits(log, x, y, n) ==
    IF n = 0 THEN 0
    ELSE LET cell == Cells[n]
         IN  2 * SlotBits(log, x, y, n - 1)
                 + (IF PixelAt(log, x + cell[1], y + cell[2]) /= Black THEN 1 ELSE 0)

\* the inverse of the digits_5x3 table: the digit of a pattern, -1 if it has none
DecodeGlyph(bits) ==
    LET ds == {d \in 0..9 : digits_5x3[d + 1] = bits}
    IN  IF Cardinality(ds) = 1 THEN CHOOSE d \in ds : TRUE ELSE -1

\* the four digits the glyph slots of the buffer show
ShownDigits(log) ==
    << DecodeGlyph(SlotBits(log, 1, 1, 15)),
       DecodeGlyph(SlotBits(log, 5, 1, 15)),
       DecodeGlyph(SlotBits(log, 9, 1, 15)),
       DecodeGlyph(SlotBits(log, 13, 1, 15)) >>

\* the main loop, or the driver, has called Display.update since the last clear()
UpdateCalled == pc \in {"clear", "failed"} /\ sink /= << >>

\* Display.update has returned since the last clear()
FramePresented == pc = "clear" /\ sink /= << >>

(***************************************************************************)
(* C1: in every state reachable by key_1, key_2, key_3 and Timer.update    *)
(* calls, seconds is in [0,59] and minutes is >= 0.                        *)
(* Fails: key_2 carries only from 61 seconds, so 30 + 30 stays 60.         *)
(***************************************************************************)
C1_TimeNormalized == seconds \in 0..59 /\ minutes >= 0

(***************************************************************************)
(* C2: from (m, s) with m >= 0 and s in [0,59], one call of key_2 yields   *)
(* (m + (s+30) div 60, (s+30) mod 60); (0,45) becomes (1,15).              *)
(* Fails at s = 30: the result is (m, 60).                                 *)
(***************************************************************************)
C2_Key2Carries ==
    [][ (key_2 /\ minutes >= 0 /\ seconds \in 0..59)
          => /\ minutes' = minutes + ((seconds + 30) \div 60)
             /\ seconds' = (seconds + 30) % 60 ]_vars

(***************************************************************************)
(* C3, as stated: at process start the time value is (5, 1), and before    *)
(* any button press the first Timer.update presents the frame 05:01.       *)
(***************************************************************************)
C3_StartsAtFiveOhOne ==
    ~pressed =>
        /\ sink = << >> => (minutes = 5 /\ seconds = 1)
        /\ FramePresented => ShownDigits(sink) = <<0, 5, 0, 1>>

(***************************************************************************)
(* C3, amended: at process start the time value is (0, 0) and only the     *)
(* Display's stored digits are (5, 1); before any button press every       *)
(* Timer.update, the first included, forwards (0, 0) to Display.update,    *)
(* so the first presented frame shows 00:00.                               *)
(***************************************************************************)
C3_StartsAtZero ==
    ~pressed =>
        /\ minutes = 0 /\ seconds = 0
        /\ sink = << >> => (d_minutes = 5 /\ d_seconds = 1)
        /\ UpdateCalled =>
              /\ d_minutes = 0 /\ d_seconds = 0
              /\ pc = "clear"
              /\ ShowCount(sink) = 1
              /\ ShownDigits(sink) = <<0, 0, 0, 0>>

\* the first Timer.update has returned and no button was pressed
C3_Witness ==
    /\ ~pressed
    /\ FramePresented
    /\ timerCount = 1
    /\ ShownDigits(sink) = <<0, 0, 0, 0>>

(***************************************************************************)
(* C4: no operation has a failure path: in every reachable state           *)
(* Timer.update completes, every glyph index Display.update passes to      *)
(* _draw_digit being in [0,9], also with minutes at 100 or more.           *)
(* Fails: at minutes = 100 the tens digit is 10 and the lookup raises.     *)
(***************************************************************************)
C4_UpdateCompletes ==
    /\ pc /= "failed"
    /\ UpdateCalled =>
          \A i \in 1..4 : DigitDraws(d_minutes, d_seconds)[i][1] \in 0..9

(***************************************************************************)
(* C5: render round trip: for m >= 0 and s in [0,59], after clear() and    *)
(* Display.update(m, s) the four glyph slots decode, through the inverse   *)
(* of digits_5x3, to the digits of (m mod 100, s); the ten glyphs are      *)
(* pairwise distinct.                                                      *)
(* Fails from m = 100 (C4): update raises before it writes a pixel.        *)
(***************************************************************************)
C5_RenderRoundTrip ==
    /\ \A d, e \in 1..Len(digits_5x3) : d /= e => digits_5x3[d] /= digits_5x3[e]
    /\ (UpdateCalled /\ sink[1] = ClearCall /\ d_minutes >= 0 /\ d_seconds \in 0..59)
          => ShownDigits(sink) = << (d_minutes % 100) \div 10, (d_minutes % 100) % 10,
                                    d_seconds \div 10, d_seconds % 10 >>

(***************************************************************************)
(* C6: countdown cadence: from tick counter 0, with no button press and a  *)
(* non-zero time, the k-th call of Timer.update changes (minutes, seconds) *)
(* if and only if k is a multiple of 20, and then takes exactly one second *)
(* off: seconds - 1 when seconds > 0, otherwise minutes - 1 and seconds =  *)
(* 59.  While quiet holds, the call about to be made is call number        *)
(* timerCount + 1 of its group of 20.                                      *)
(***************************************************************************)
C6_CountdownCadence ==
    [][ (quiet /\ Timer_update /\ (minutes /= 0 \/ seconds /= 0))
          => IF timerCount + 1 = 20
             THEN /\ 60 * minutes' + seconds' = 60 * minutes + seconds - 1
                  /\ IF seconds > 0
                     THEN minutes' = minutes /\ seconds' = seconds - 1
                     ELSE minutes' = minutes - 1 /\ seconds' = 59
             ELSE minutes' = minutes /\ seconds' = seconds ]_vars

\* the 20th call of a group with no press has borrowed a minute: (1,0) to (0,59)
C6_Witness ==
    /\ quiet
    /\ FramePresented
    /\ timerCount = 0
    /\ d_minutes = 1 /\ d_seconds = 0
    /\ minutes = 0 /\ seconds = 59

(***************************************************************************)
(* C7: floor at zero: at (0, 0) a Timer.update call leaves (0, 0), and no  *)
(* Timer.update call makes minutes or seconds negative.                    *)
(***************************************************************************)
C7_FloorAtZero ==
    [][ Timer_update
          => /\ minutes' >= 0 /\ seconds' >= 0
             /\ (minutes = 0 /\ seconds = 0) => (minutes' = 0 /\ seconds' = 0) ]_vars

\* the 20th call of a group has run with the time at (0, 0)
C7_Witness ==
    /\ FramePresented
    /\ timerCount = 0
    /\ presses = << >>
    /\ d_minutes = 0 /\ d_seconds = 0
    /\ minutes = 0 /\ seconds = 0

(***************************************************************************)
(* C8: reset: from any (m, s) with m, s >= 0 one call of key_3 yields      *)
(* (0, 0), and a second call of key_3 leaves the time, the tick counter    *)
(* and the display as the first call left them.                            *)
(***************************************************************************)
C8_Reset ==
    [][ key_3
          => /\ minutes' = 0 /\ seconds' = 0
             /\ (presses /= << >> /\ presses[Len(presses)] = "key_3")
                   => UNCHANGED <<timerVars, displayVars, pc>> ]_vars

\* key_3 has run twice in a row from a non-zero time
C8_Witness ==
    /\ presses = <<"key_3", "key_3">>
    /\ sink /= << >>
    /\ d_minutes > 0
    /\ minutes = 0 /\ seconds = 0

(***************************************************************************)
(* C9, as stated: every digit pixel Display.update writes carries the      *)
(* field's stored colour scaled by the field's stored brightness.          *)
(***************************************************************************)
C9_StoredColourScaled ==
    FramePresented =>
        \A i \in 1..Len(sink) :
            (sink[i].op = "set_pixel" /\ sink[i].x /= 8)
               => sink[i].c = IF sink[i].x < 8
                              THEN Scaled(digit_left_color, digit_left_br)
                              ELSE Scaled(digit_right_color, digit_right_br)

(***************************************************************************)
(* C9, amended: every digit pixel Display.update writes carries a fixed    *)
(* colour, whatever set_digit_color and set_digit_brightness stored:       *)
(* (249, 82, 255) for the two minute digits, (5, 255, 161) for the two     *)
(* second digits.                                                          *)
(***************************************************************************)
C9_FixedColours ==
    FramePresented =>
        \A i \in 1..Len(sink) :
            (sink[i].op = "set_pixel" /\ sink[i].x /= 8)
               => sink[i].c = IF sink[i].x < 8 THEN <<249, 82, 255>>
                                               ELSE <<5, 255, 161>>

\* a frame drawn after both setters stored other values than the initial ones
C9_Witness ==
    /\ FramePresented
    /\ digit_left_color = <<255, 0, 0>> /\ digit_right_color = <<255, 0, 0>>
    /\ digit_left_br = 5 /\ digit_right_br = 5
    /\ \E i \in 1..Len(sink) : sink[i].op = "set_pixel" /\ sink[i].x < 8
    /\ \E i \in 1..Len(sink) : sink[i].op = "set_pixel" /\ sink[i].x > 8

(***************************************************************************)
(* C10: one frame per update: every call of Display.update calls show()    *)
(* exactly once, after every set_pixel call of the same update.            *)
(* Fails from minutes = 100 (C4): update raises and never calls show().    *)
(***************************************************************************)
C10_OneFramePerUpdate ==
    UpdateCalled =>
        /\ ShowCount(sink) = 1
        /\ sink[Len(sink)] = ShowCall

(***************************************************************************)
(* C12: the pixel sink is touched only by the main loop: key_1, key_2 and  *)
(* key_3 make no call to the sink and leave the Display's digits, colours  *)
(* and brightness unchanged.                                               *)
(***************************************************************************)
C12_KeysLeaveDisplay ==
    [][ (key_1 \/ key_2 \/ key_3) => UNCHANGED <<displayVars, pc>> ]_vars

\* two of the callbacks have changed the time since a frame was presented
C12_Witness ==
    /\ FramePresented
    /\ presses \in { <<"key_1", "key_2">>, <<"key_2", "key_3">>, <<"key_3", "key_1">> }
    /\ <<minutes, seconds>> /= <<d_minutes, d_seconds>>

(***************************************************************************)
(* C16: countdown completes: from (m, s) with m, s >= 0, with no button    *)
(* pressed and the main loop running, the timer reaches (0, 0) after at    *)
(* most 20 * (60 * m + s) calls of Timer.update and stays there: every     *)
(* call at a non-zero time leaves one call less to make, and a call at     *)
(* (0, 0) leaves (0, 0).                                                   *)
(* Fails from m = 100 (C4): Timer.update raises, the main loop ends and    *)
(* the time stays where it is.                                             *)
(***************************************************************************)
CallsToZero(m, s, count) == 20 * (60 * m + s) - count

C16_CountdownCompletes ==
    [][ (Timer_update /\ minutes >= 0 /\ seconds >= 0)
          => IF minutes = 0 /\ seconds = 0
             THEN minutes' = 0 /\ seconds' = 0
             ELSE /\ CallsToZero(minutes, seconds, timerCount) <= 20 * (60 * minutes + seconds)
                  /\ CallsToZero(minutes', seconds', timerCount')
                       = CallsToZero(minutes, seconds, timerCount) - 1 ]_vars

(***************************************************************************)
(* C17: no stale pixels: every show() of the main loop is preceded, since  *)
(* the previous show(), by exactly one clear() that comes before all the   *)
(* set_pixel calls of the frame, so the presented frame is made of the     *)
(* four glyphs and the colon of the time value passed to Display.update.   *)
(***************************************************************************)
\* the pixels of the glyph of digit d in the slot at column x, row 1
GlyphPixels(d, x) ==
    { <<x + dx, 1 + dy>> : <<dx, dy>> \in
          { c \in (0..2) \X (0..4) : CellLit(digits_5x3[d + 1], c[1], c[2]) } }

\* the pixels of the frame of the time value (m, s), m below 100
FramePixels(m, s) ==
    GlyphPixels(m \div 10, 1) \cup GlyphPixels(m % 10, 5)
        \cup GlyphPixels(s \div 10, 9) \cup GlyphPixels(s % 10, 13)
        \cup { <<8, 2>>, <<8, 4>> }

C17_NoStalePixels ==
    \A k \in 1..Len(sink) :
        sink[k].op = "show"
           => /\ sink[1] = ClearCall
              /\ \A i \in 2..(k - 1) : sink[i].op = "set_pixel" /\ sink[i].c /= Black
              /\ { <<sink[i].x, sink[i].y>> : i \in 2..(k - 1) }
                    = FramePixels(d_minutes, d_seconds)

\* the main loop has presented a second frame, of another time value than the first
C17_Witness ==
    /\ FramePresented
    /\ ShowCount(sink) = 1
    /\ timerCount = 2
    /\ d_minutes = 1 /\ d_seconds = 30

(***************************************************************************)
(* C18: key_1 adds exactly 1 to minutes and leaves seconds and the tick    *)
(* counter unchanged; key_2 and key_3 leave the tick counter unchanged;    *)
(* so after a press the next countdown step is 20 - timerCount calls of    *)
(* Timer.update away, between 1 and 20, as it was before the press.        *)
(***************************************************************************)
C18_KeysKeepCadence ==
    [][ /\ key_1 => (minutes' = minutes + 1 /\ seconds' = seconds /\ timerCount' = timerCount)
        /\ (key_2 \/ key_3) => timerCount' = timerCount
        /\ (key_1 \/ key_2 \/ key_3) => (20 - timerCount') \in 1..20
        /\ (Timer_update /\ pc' = "clear")
              => /\ (20 - timerCount) \in 1..20
                 /\ IF 20 - timerCount = 1
                    THEN /\ timerCount' = 0
                         /\ <<minutes', seconds'>> = Countdown(minutes, seconds)
                    ELSE /\ 20 - timerCount' = (20 - timerCount) - 1
                         /\ UNCHANGED <<minutes, seconds>> ]_vars

\* key_1 has run in the middle of a group of 20 calls
C18_Witness ==
    /\ presses = <<"key_1">>
    /\ sink /= << >>
    /\ timerCount = 7
    /\ minutes = d_minutes + 1
    /\ seconds = d_seconds

(***************************************************************************)
(* C20: the tick counter is reset to 0 every time it reaches 20: after     *)
(* every Timer.update call, under any sequence of ticks and button         *)
(* presses, it is in [0,19].                                               *)
(***************************************************************************)
C20_TickCounterRange == timerCount \in 0..19

\* the 20th call of a group has reset the tick counter
C20_Witness ==
    /\ FramePresented
    /\ presses = << >>
    /\ timerCount = 0

(***************************************************************************)
(* _draw_digit under a driver that calls it, after clear(), with digits    *)
(* inside and outside 0..9 at the positions where a glyph fits the grid.   *)
(***************************************************************************)
DriverDigits == -12..12
DriverColumns == 0..14
DriverRows == 0..2

\* the driver calls _draw_digit(digit, x, y, 249, 82, 255); the IndexError of
\* the lookup ends the driver
DrawDigitCalled(digit, x, y) ==
    /\ pc = "update"
    /\ sink' = sink \o draw_digit(digit, x, y, 249, 82, 255)
    /\ pc' = IF IndexInRange(digit) THEN "clear" ELSE "failed"
    /\ UNCHANGED <<timerVars, d_minutes, d_seconds, fieldVars, histVars, raceVars>>

call_draw_digit ==
    \E digit \in DriverDigits, x \in DriverColumns, y \in DriverRows :
        DrawDigitCalled(digit, x, y)

NextGlyph == Display_clear \/ call_draw_digit

SpecGlyph == Init /\ [][NextGlyph]_vars

(***************************************************************************)
(* Display.update under a driver that walks the time values of two         *)
(* decimal digits of minutes: after clear(), update(m, s) with (m, s) one  *)
(* minute or one second past the digits the Display stores.                *)
(***************************************************************************)
call_update_next ==
    /\ pc = "update"
    /\ \E step \in { <<1, 0>>, <<0, 1>> } :
          LET m == (d_minutes + step[1]) % 100
              s == (d_seconds + step[2]) % 60
          IN  /\ Display_update(m, s)
              /\ pc' = IF UpdateRaises(m, s) THEN "failed" ELSE "clear"
    /\ UNCHANGED <<timerVars, histVars, raceVars>>

NextRender == Display_clear \/ call_update_next

SpecRender == Init /\ [][NextRender]_vars

(***************************************************************************)
(* The program with every read and every write of _minutes and _seconds a  *)
(* step of its own.  The main thread runs the loop of lines 211-214; one   *)
(* thread of the button library runs the callbacks, one call at a time,    *)
(* and takes its steps between any two steps of the main thread.           *)
(* _timerCount and the Display are used by the main thread alone, so the   *)
(* steps on them are joined to the next read of a counter.                 *)
(***************************************************************************)
Idle == [at |-> "idle", reg |-> 0]

\* the main thread is inside Timer.update
InUpdate == pc \notin {"clear", "update", "failed"}

\* Timer.update returns: a reset that completed while it ran is now settled
Returned(t) == [t EXCEPT !.reset = IF @ = "pending" THEN "done" ELSE @]

\* a button is pressed while no callback runs
CallbackStarts ==
    /\ pc /= "failed"
    /\ cb.at = "idle"
    /\ tally.key_1 + tally.key_2 + tally.key_3 < RacePresses

\* line 183: self._minutes is read for the first argument of display.update
update_read_minutes ==
    /\ pc = "update"
    /\ CountdownDue(timerCount + 1) => tally.downs < RaceCountdowns
    /\ reg' = minutes
    /\ pc' = "read_seconds"
    /\ UNCHANGED <<timerVars, displayVars, histVars, cb, tally>>

\* lines 183-186: self._seconds is read, display.update runs, the tick is counted
update_display ==
    /\ pc = "read_seconds"
    /\ Display_update(reg, seconds)
    /\ IF UpdateRaises(reg, seconds)
       THEN /\ pc' = "failed"
            /\ UNCHANGED <<timerCount, tally>>
       ELSE IF CountdownDue(timerCount + 1)
            THEN /\ timerCount' = 0
                 /\ pc' = "test_seconds"
                 /\ UNCHANGED tally
            ELSE /\ timerCount' = timerCount + 1
                 /\ pc' = "clear"
                 /\ tally' = Returned(tally)
    /\ UNCHANGED <<minutes, seconds, histVars, reg, cb>>

\* line 187: if self._seconds > 0
update_test_seconds ==
    /\ pc = "test_seconds"
    /\ pc' = IF seconds > 0 THEN "dec_seconds_read" ELSE "test_seconds_zero"
    /\ UNCHANGED <<timerVars, displayVars, histVars, raceVars>>

\* line 188: the read of self._seconds -= 1
update_dec_seconds_read ==
    /\ pc = "dec_seconds_read"
    /\ reg' = seconds
    /\ pc' = "dec_seconds_write"
    /\ UNCHANGED <<timerVars, displayVars, histVars, cb, tally>>

\* line 188: the write of self._seconds -= 1
update_dec_seconds_write ==
    /\ pc = "dec_seconds_write"
    /\ seconds' = reg - 1
    /\ pc' = "clear"
    /\ tally' = Returned([tally EXCEPT !.downs = @ + 1])
    /\ UNCHANGED <<minutes, timerCount, displayVars, histVars, reg, cb>>

\* line 189: elif self._seconds == 0
update_test_seconds_zero ==
    /\ pc = "test_seconds_zero"
    /\ IF seconds = 0
       THEN pc' = "test_minutes" /\ UNCHANGED tally
       ELSE pc' = "clear" /\ tally' = Returned(tally)
    /\ UNCHANGED <<timerVars, displayVars, histVars, reg, cb>>

\* line 189: and self._minutes > 0
update_test_minutes ==
    /\ pc = "test_minutes"
    /\ IF minutes > 0
       THEN pc' = "dec_minutes_read" /\ UNCHANGED tally
       ELSE pc' = "clear" /\ tally' = Returned(tally)
    /\ UNCHANGED <<timerVars, displayVars, histVars, reg, cb>>

\* line 190: the read of self._minutes -= 1
update_dec_minutes_read ==
    /\ pc = "dec_minutes_read"
    /\ reg' = minutes
    /\ pc' = "dec_minutes_write"
    /\ UNCHANGED <<timerVars, displayVars, histVars, cb, tally>>

\* line 190: the write of self._minutes -= 1
update_dec_minutes_write ==
    /\ pc = "dec_minutes_write"
    /\ minutes' = reg - 1
    /\ pc' = "set_seconds"
    /\ UNCHANGED <<seconds, timerCount, displayVars, histVars, reg, cb, tally>>

\* line 191: self._seconds = 59
update_set_seconds ==
    /\ pc = "set_seconds"
    /\ seconds' = 59
    /\ pc' = "clear"
    /\ tally' = Returned([tally EXCEPT !.downs = @ + 1])
    /\ UNCHANGED <<minutes, timerCount, displayVars, histVars, reg, cb>>

\* line 167: key_1 starts with the read of self._minutes += 1
key_1_read ==
    /\ CallbackStarts
    /\ cb' = [at |-> "key_1_write", reg |-> minutes]
    /\ tally' = [tally EXCEPT !.reset = "none"]
    /\ UNCHANGED <<timerVars, displayVars, pc, histVars, reg>>

\* line 167: the write of self._minutes += 1; key_1 returns
key_1_write ==
    /\ cb.at = "key_1_write"
    /\ minutes' = cb.reg + 1
    /\ cb' = Idle
    /\ tally' = [tally EXCEPT !.key_1 = @ + 1]
    /\ UNCHANGED <<seconds, timerCount, displayVars, pc, histVars, reg>>

\* line 171: key_2 starts with the read of self._seconds += 30
key_2_read ==
    /\ CallbackStarts
    /\ cb' = [at |-> "key_2_add", reg |-> seconds]
    /\ tally' = [tally EXCEPT !.reset = "none"]
    /\ UNCHANGED <<timerVars, displayVars, pc, histVars, reg>>

\* line 171: the write of self._seconds += 30
key_2_add ==
    /\ cb.at = "key_2_add"
    /\ seconds' = cb.reg + 30
    /\ cb' = [cb EXCEPT !.at = "key_2_test"]
    /\ UNCHANGED <<minutes, timerCount, displayVars, pc, histVars, reg, tally>>

\* line 174: if self._seconds / 60 > 1; key_2 returns where it is not
key_2_test ==
    /\ cb.at = "key_2_test"
    /\ IF seconds > 1 * 60
       THEN /\ cb' = [cb EXCEPT !.at = "key_2_read_seconds"]
            /\ UNCHANGED tally
       ELSE /\ cb' = Idle
            /\ tally' = [tally EXCEPT !.key_2 = @ + 1]
    /\ UNCHANGED <<timerVars, displayVars, pc, histVars, reg>>

\* line 175: the read of self._seconds -= 60
key_2_read_seconds ==
    /\ cb.at = "key_2_read_seconds"
    /\ cb' = [at |-> "key_2_sub", reg |-> seconds]
    /\ UNCHANGED <<timerVars, displayVars, pc, histVars, reg, tally>>

\* line 175: the write of self._seconds -= 60
key_2_sub ==
    /\ cb.at = "key_2_sub"
    /\ seconds' = cb.reg - 60
    /\ cb' = [cb EXCEPT !.at = "key_2_read_minutes"]
    /\ UNCHANGED <<minutes, timerCount, displayVars, pc, histVars, reg, tally>>

\* line 176: the read of self._minutes += 1
key_2_read_minutes ==
    /\ cb.at = "key_2_read_minutes"
    /\ cb' = [at |-> "key_2_carry", reg |-> minutes]
    /\ UNCHANGED <<timerVars, displayVars, pc, histVars, reg, tally>>

\* line 176: the write of self._minutes += 1; key_2 returns
key_2_carry ==
    /\ cb.at = "key_2_carry"
    /\ minutes' = cb.reg + 1
    /\ cb' = Idle
    /\ tally' = [tally EXCEPT !.key_2 = @ + 1]
    /\ UNCHANGED <<seconds, timerCount, displayVars, pc, histVars, reg>>

\* line 179: key_3 starts with self._seconds = 0
key_3_seconds ==
    /\ CallbackStarts
    /\ seconds' = 0
    /\ cb' = [cb EXCEPT !.at = "key_3_minutes"]
    /\ UNCHANGED <<minutes, timerCount, displayVars, pc, histVars, reg, tally>>

\* line 180: self._minutes = 0; key_3 returns
key_3_minutes ==
    /\ cb.at = "key_3_minutes"
    /\ minutes' = 0
    /\ cb' = Idle
    /\ tally' = [tally EXCEPT !.key_3 = @ + 1,
                              !.reset = IF InUpdate THEN "pending" ELSE "done"]
    /\ UNCHANGED <<seconds, timerCount, displayVars, pc, histVars, reg>>

UpdateSteps ==
    \/ update_read_minutes \/ update_display \/ update_test_seconds
    \/ update_dec_seconds_read \/ update_dec_seconds_write
    \/ update_test_seconds_zero \/ update_test_minutes
    \/ update_dec_minutes_read \/ update_dec_minutes_write \/ update_set_seconds

CallbackSteps ==
    \/ key_1_read \/ key_1_write
    \/ key_2_read \/ key_2_add \/ key_2_test \/ key_2_read_seconds
    \/ key_2_sub \/ key_2_read_minutes \/ key_2_carry
    \/ key_3_seconds \/ key_3_minutes

NextRace == Display_clear \/ UpdateSteps \/ CallbackSteps

SpecRace == Init /\ [][NextRace]_vars

(***************************************************************************)
(* C13: under the race between the button callbacks and the main loop,     *)
(* with each read and each write of a counter a separate atomic step,      *)
(* minutes and seconds never become negative in any interleaving.          *)
(* Fails: key_3 between the test of line 187 and the write of line 188     *)
(* has Timer.update write seconds = -1 or, on line 190, minutes = -1.      *)
(***************************************************************************)
C13_NeverNegative == minutes >= 0 /\ seconds >= 0

(***************************************************************************)
(* C14: no button press is lost to the race: with no key_3 call, whenever  *)
(* no callback runs and the main thread is outside Timer.update, the total *)
(* 60*minutes + seconds is the initial total 0 plus 60 per completed key_1 *)
(* call plus 30 per completed key_2 call minus 1 per countdown step.       *)
(* Fails: a key_2 that runs between the read and the write of line 188 is  *)
(* overwritten by seconds - 1, and its 30 seconds are lost.                *)
(***************************************************************************)
C14_NoPressLost ==
    (tally.key_3 = 0 /\ cb.at = "idle" /\ ~InUpdate)
       => 60 * minutes + seconds
             = 60 * tally.key_1 + 30 * tally.key_2 - tally.downs

(***************************************************************************)
(* C15: reset sticks under the race: once a key_3 call has completed, the  *)
(* Timer.update call in progress has returned and no key_1 or key_2 call   *)
(* has started since, (minutes, seconds) is (0, 0) in every state.         *)
(* Fails: a key_3 that runs between the read and the write of line 188 is  *)
(* overwritten, and the time stays at the old seconds - 1.                 *)
(***************************************************************************)
C15_ResetSticks ==
    tally.reset = "done" => (minutes = 0 /\ seconds = 0)

(***************************************************************************)
(* C11: glyph lookup is defined for every digit d in [0,9] and yields a    *)
(* 3x5 pattern with at least one lit cell; for every d outside [0,9],      *)
(* negative values included, _draw_digit fails and writes no pixel.        *)
(* Fails for d in -10..-1: Python indexes the table from its end, and      *)
(* _draw_digit(-1, ...) draws the glyph of 9.                              *)
(***************************************************************************)
C11_GlyphLookup ==
    [][ /\ \A d \in 0..9 :
              /\ IndexInRange(d)
              /\ digits_5x3[ListPosition(d)] \in 1..32767
              /\ Len(LitCells[ListPosition(d)]) >= 1
        /\ \A d \in DriverDigits, x \in DriverColumns, y \in DriverRows :
              DrawDigitCalled(d, x, y)
                 => IF d \in 0..9
                    THEN pc' = "clear" /\ Len(sink') > Len(sink)
                    ELSE pc' = "failed" /\ sink' = sink ]_vars

(***************************************************************************)
(* C19: for minutes in [0,99] and seconds in [0,59] every set_pixel call   *)
(* of Display.update has x in [0,15] and y in [0,6]; the four glyph slots  *)
(* occupy disjoint column ranges; the colon pixels (8,2) and (8,4) are in  *)
(* no glyph slot.                                                          *)
(***************************************************************************)
\* the set_pixel calls of the i-th _draw_digit call of Display.update(m, s)
SlotCalls(m, s, i) ==
    LET d == DigitDraws(m, s)[i]
    IN  draw_digit(d[1], d[2], 1, d[3][1], d[3][2], d[3][3])

\* the columns of the i-th glyph slot: three from the x of the i-th call
SlotColumns(m, s, i) == DigitDraws(m, s)[i][2] .. (DigitDraws(m, s)[i][2] + 2)

C19_PixelsInGrid ==
    (pc = "clear" /\ ShowCount(sink) = 1 /\ d_minutes \in 0..99 /\ d_seconds \in 0..59)
       => LET m == d_minutes
              s == d_seconds
          IN  /\ \A k \in 1..Len(sink) :
                    sink[k].op = "set_pixel" => (sink[k].x \in 0..15 /\ sink[k].y \in 0..6)
              /\ SubSeq(sink, 2, Len(sink) - 3)
                    = SlotCalls(m, s, 1) \o SlotCalls(m, s, 2)
                         \o SlotCalls(m, s, 3) \o SlotCalls(m, s, 4)
              /\ \A i \in 1..4 : \A k \in 1..Len(SlotCalls(m, s, i)) :
                    /\ SlotCalls(m, s, i)[k].x \in SlotColumns(m, s, i)
                    /\ SlotCalls(m, s, i)[k].y \in 1..5
              /\ \A i, j \in 1..4 :
                    i /= j => SlotColumns(m, s, i) \cap SlotColumns(m, s, j) = {}
              /\ sink[Len(sink) - 2].op = "set_pixel"
              /\ <<sink[Len(sink) - 2].x, sink[Len(sink) - 2].y>> = <<8, 2>>
              /\ sink[Len(sink) - 1].op = "set_pixel"
              /\ <<sink[Len(sink) - 1].x, sink[Len(sink) - 1].y>> = <<8, 4>>
              /\ \A i \in 1..4 : 8 \notin SlotColumns(m, s, i)

\* the frame of 99:59 is presented, with a pixel in the last column a glyph uses
C19_Witness ==
    /\ pc = "clear"
    /\ ShowCount(sink) = 1
    /\ d_minutes = 99 /\ d_seconds = 59
    /\ \E k \in 1..Len(sink) : sink[k].op = "set_pixel" /\ sink[k].x = 15

====
